---- MODULE Spec2Model ----
(***************************************************************************)
(* Model of mytools/paraview.py: the writers vtr, vts and vtu of VTK XML   *)
(* files with raw appended binary data.                                    *)
(*                                                                         *)
(* A file is the sequence of the items written to the handle, in order:    *)
(* the header lines (records), the marker "_", the 4-byte words of the     *)
(* appended data section, and the closing lines.  A word is a record       *)
(*   [k |-> "i32", n |-> <integer>]   from pack("i", n)                    *)
(*   [k |-> "f32", src |-> <element>] from pack("f", v): the float32       *)
(*                                    rounding of source element v         *)
(* and a source element is named by its array and its 0-based index:       *)
(*   [arr |-> "x", idx |-> <<i>>],  [arr |-> "V3", idx |-> <<c, i, j, k>>].*)
(* Numbers printed into the header are decimal text (sequences of digit    *)
(* characters), as str.format produces them.                               *)
(*                                                                         *)
(* The module also models the reading back of a vtr file (vtrreader.py),   *)
(* class BinaryReader (binaryreader.py, specification SpecBinaryReader)    *)
(* and class MyHDF5 (myhdf5.py, specification SpecMyHDF5); each part has   *)
(* its own variables, which the actions of the other parts leave alone.    *)
(***************************************************************************)
EXTENDS Integers, Sequences, FiniteSets, TLC

\* Largest number of grid points along one axis (vtr, vts) and of vertices (vtu).
MaxDim == 2
\* Largest number of fields in **kwargs.
MaxFields == 2
\* Largest number of cells of an unstructured grid.
MaxCells == 2
\* Number m of index columns of the cells array (cells has 1+m columns).
MaxCols == 2
\* binaryreader: the largest size of the binary file in bytes, the largest ncols
\* and trunc passed to sort, and the numbers of sort and of open calls made on
\* one reader.
MaxBytes == 12
MaxNCols == 2
MaxTrunc == 2
MaxSorts == 2
MaxOpens == 1
\* myhdf5: the number of append and concatenate calls made on one object.
MaxOps == 3

VARIABLES
    pc,      \* position of the call: "idle", "header", "payload", "trailer", "done", "failed"
    args,    \* the arguments of the call in progress
    fh,      \* the file handle: "none", "open", "closed"
    file,    \* the items written to the file so far
    starts,  \* for each block written, the bytes written after "_" before its length prefix
    err,     \* the exception that ended the call, "" when none
    self,    \* the BinaryReader object: its attributes
    disk,    \* the number of bytes of the binary file the reader is given
    handles, \* the file handles the reader has opened: position and state
    rpc,     \* position of the reader: "none", "idle", "loop"
    loc,     \* the locals of the sort call in progress
    calls,   \* the number of sort calls made on the reader
    lastCall, \* the reader's method called last: "", "init", "file", "customize", "sort", "close"
    rerr,    \* the exception that ended the reader's last call, "" when none
    h5self,  \* the MyHDF5 object: its attributes fh, dataset, group
    h5file,  \* the HDF5 file: its datasets (name -> array) and its groups
    h5calls, \* the number of append and concatenate calls made on the object
    h5last,  \* the object's method called last, and the file as it was before the call
    h5err    \* the exception that ended the object's last call, "" when none

writerVars == <<pc, args, fh, file, starts, err>>
readerVars == <<self, disk, handles, rpc, loc, calls, lastCall, rerr>>
hdfVars == <<h5self, h5file, h5calls, h5last, h5err>>
vars == <<pc, args, fh, file, starts, err,
          self, disk, handles, rpc, loc, calls, lastCall, rerr,
          h5self, h5file, h5calls, h5last, h5err>>

----------------------------------------------------------------------------
(* Pure helpers: numpy and struct                                          *)

DigitChars == <<"0", "1", "2", "3", "4", "5", "6", "7", "8", "9">>

\* str(n) / '{}'.format(n) of an integer: its decimal text.
RECURSIVE strNat(_)
strNat(n) == IF n < 10 THEN <<DigitChars[n + 1]>>
             ELSE strNat(n \div 10) \o <<DigitChars[(n % 10) + 1]>>

str(n) == IF n < 0 THEN <<"-">> \o strNat(-n) ELSE strNat(n)

\* The value a reader of the header recovers from decimal text.
DigitVal(ch) == CHOOSE d \in 0..9 : DigitChars[d + 1] = ch

RECURSIVE intNat(_, _)
intNat(s, acc) == IF s = <<>> THEN acc
                  ELSE intNat(Tail(s), 10 * acc + DigitVal(Head(s)))

int(s) == IF s # <<>> /\ Head(s) = "-" THEN -intNat(Tail(s), 0) ELSE intNat(s, 0)

\* value.size of an array of the given shape.
RECURSIVE size(_)
size(shape) == IF shape = <<>> THEN 1 ELSE Head(shape) * size(Tail(shape))

\* The multi-index at 0-based position p of a row-major (C order) flattening:
\* the last axis varies fastest.
RECURSIVE unravelC(_, _)
unravelC(p, shape) ==
    IF shape = <<>> THEN <<>>
    ELSE LET n == Len(shape)
             init == SubSeq(shape, 1, n - 1)
         IN  unravelC(p \div shape[n], init) \o <<p % shape[n]>>

\* The multi-index at 0-based position p of value.flatten(order='F'):
\* the first axis varies fastest.
RECURSIVE unravelF(_, _)
unravelF(p, shape) ==
    IF shape = <<>> THEN <<>>
    ELSE <<p % Head(shape)>> \o unravelF(p \div Head(shape), Tail(shape))

\* value.flatten(order='C'), the numpy default (not what the writers ask for).
flattenC(name, shape) ==
    [p \in 1..size(shape) |-> [arr |-> name, idx |-> unravelC(p - 1, shape)]]

\* value.flatten(order='F'): the elements of the array in column-major order.
flattenF(name, shape) ==
    [p \in 1..size(shape) |-> [arr |-> name, idx |-> unravelF(p - 1, shape)]]

\* pack("i", n): one int32 word.
packI(n) == <<[k |-> "i32", n |-> n]>>

\* pack("f"*len(elems), *elems): one float32 word per element, in order.
packF(elems) == [p \in 1..Len(elems) |-> [k |-> "f32", src |-> elems[p]]]

\* The concatenation of a sequence of sequences.
RECURSIVE concat(_)
concat(ss) == IF ss = <<>> THEN <<>> ELSE Head(ss) \o concat(Tail(ss))

\* For a sequence of blocks written one after the other, the number of bytes
\* written before each block (4 bytes per word), starting from `at`.
RECURSIVE blockStarts(_, _)
blockStarts(blocks, at) ==
    IF blocks = <<>> THEN <<>>
    ELSE <<at>> \o blockStarts(Tail(blocks), at + 4 * Len(Head(blocks)))

----------------------------------------------------------------------------
(* Header lines                                                            *)

tag(t) == [k |-> "tag", t |-> t]

\* '<DataArray type=".." Name=".." format="appended" offset=".." NumberOfComponents=".."/>'
DataArray(type, name, off, ncomp) ==
    [k |-> "DataArray", type |-> type, name |-> name,
     offset |-> str(off), ncomp |-> str(ncomp)]

\* An extent that counts the points of each axis from 0.
extentZeroBased(nx, ny, nz) ==
    <<str(0), str(nx - 1), str(0), str(ny - 1), str(0), str(nz - 1)>>

\* The extent text "1 nx 1 ny 1 nz" built from ise, jse, kse.
extent(nx, ny, nz) == <<str(1), str(nx), str(1), str(ny), str(1), str(nz)>>

\* A running offset that forgets the 4 bytes of the length prefix.
RECURSIVE fieldDescsNoPrefix(_, _)
fieldDescsNoPrefix(fields, off) ==
    IF fields = <<>> THEN <<>>
    ELSE LET value == Head(fields)
             ndim  == value.shape[1]
         IN  <<DataArray("Float32", value.name, off, ndim)>>
             \o fieldDescsNoPrefix(Tail(fields), off + size(value.shape) * 4)

\* The loop over kwargs.items() that declares the fields: one descriptor per
\* field at the running offset, which then grows by value.size*4 + 4.
RECURSIVE fieldDescs(_, _)
fieldDescs(fields, off) ==
    IF fields = <<>> THEN <<>>
    ELSE LET value == Head(fields)
             ndim  == value.shape[1]
         IN  <<DataArray("Float32", value.name, off, ndim)>>
             \o fieldDescs(Tail(fields), off + size(value.shape) * 4 + 4)

\* A PointData element that is written whether or not there is a field.
pointDataAlways(fields, off) ==
    <<tag("<PointData>")>> \o fieldDescs(fields, off) \o <<tag("</PointData>")>>

\* 'if len(kwargs) > 0:' around the field descriptors.
pointData(fields, off) ==
    IF Len(fields) > 0
    THEN <<tag("<PointData>")>> \o fieldDescs(fields, off) \o <<tag("</PointData>")>>
    ELSE <<>>

\* The field blocks written in the reverse of the insertion order.
fieldBlocksReversed(fields) ==
    [f \in 1..Len(fields) |->
        LET value == fields[Len(fields) + 1 - f]
        IN  packI(4 * size(value.shape)) \o packF(flattenF(value.name, value.shape))]

\* The loop over kwargs.values() that writes the fields: per field the int32
\* byte length 4*value.size, then value.flatten(order='F') as float32.
fieldBlocks(fields) ==
    [f \in 1..Len(fields) |->
        packI(4 * size(fields[f].shape))
        \o packF(flattenF(fields[f].name, fields[f].shape))]

\* The first field of kwargs on which 'ndim = value.shape[0]' raises
\* IndexError (a 0-d array), or 0 if there is none.
firstScalar(fields) ==
    IF \E f \in 1..Len(fields) : fields[f].shape = <<>>
    THEN CHOOSE f \in 1..Len(fields) :
            /\ fields[f].shape = <<>>
            /\ \A g \in 1..(f - 1) : fields[g].shape # <<>>
    ELSE 0

\* The fields described before the loop over kwargs reaches a 0-d array.
fieldsBefore(fields) == SubSeq(fields, 1, firstScalar(fields) - 1)

\* What the header writes have put in the file when 'value.shape[0]' raises:
\* of the lines of a header over the fields before the 0-d one, everything up
\* to the last descriptor; '<PointData>' is written even if no descriptor is;
\* '</PointData>' and the three closing lines are not.
headerUntilError(lines, nGood) ==
    IF nGood = 0
    THEN SubSeq(lines, 1, Len(lines) - 3) \o <<tag("<PointData>")>>
    ELSE SubSeq(lines, 1, Len(lines) - 4)

\* The three closing writes: '\n', '</AppendedData>', '</VTKFile>'.
trailer == <<tag("\\n"), tag("</AppendedData>"), tag("</VTKFile>")>>

marker == <<[k |-> "_"]>>

----------------------------------------------------------------------------
(* Inputs                                                                  *)

\* The fields of the module's own test: a scalar, a 2-component and a
\* 3-component field, each named with its number of components.
FieldPool == << [name |-> "Pressure", ndim |-> 1],
                [name |-> "V2",       ndim |-> 2],
                [name |-> "V3",       ndim |-> 3] >>

\* The shape of a field of C components on npts points of a grid of the given
\* dimensions, by layout: 4D (C, nx, ny, nz), 2D (C, n), a 2D array with
\* one point too many (a shape that does not fit the grid), and a 0-d array
\* (shape (), on which value.shape[0] raises IndexError).
fieldShape(layout, C, dims) ==
    CASE layout = "4D"  -> <<C>> \o dims
      [] layout = "2D"  -> <<C, size(dims)>>
      [] layout = "bad" -> <<C, size(dims) + 1>>
      [] layout = "0D"  -> <<>>

\* The **kwargs a caller may pass: up to MaxFields distinct fields of the pool,
\* in any insertion order, all of one layout.
FieldLists(layouts, dims) ==
    UNION { { [f \in 1..n |-> [name  |-> FieldPool[pick[f]].name,
                               shape |-> fieldShape(layout, FieldPool[pick[f]].ndim, dims)]] :
                pick \in { q \in [1..n -> 1..Len(FieldPool)] :
                              \A a, b \in 1..n : a # b => q[a] # q[b] },
                layout \in layouts } :
            n \in 0..MaxFields }

----------------------------------------------------------------------------
(* vtr(name, x, y, z, **kwargs)                                            *)

\* x, y, z: 1D arrays of nx, ny, nz elements.
axis(name, n) == [i \in 1..n |-> [arr |-> name, idx |-> <<i - 1>>]]

vtrHeaderLines(nx, ny, nz, fields) ==
    LET off0 == 0
        off1 == off0 + nx * 4 + 4
        off2 == off1 + ny * 4 + 4
        off3 == off2 + nz * 4 + 4
    IN  << [k |-> "VTKFile", type |-> "RectilinearGrid"],
           [k |-> "Grid", WholeExtent |-> extent(nx, ny, nz)],
           [k |-> "Piece", Extent |-> extent(nx, ny, nz)],
           tag("<Coordinates>"),
           DataArray("Float32", "x", off0, 1),
           DataArray("Float32", "y", off1, 1),
           DataArray("Float32", "z", off2, 1),
           tag("</Coordinates>") >>
        \o pointData(fields, off3)
        \o << tag("</Piece>"), tag("</RectilinearGrid>"), tag("<AppendedData>") >>

vtrBlocks(nx, ny, nz, fields) ==
    << packI(4 * nx) \o packF(axis("x", nx)),
       packI(4 * ny) \o packF(axis("y", ny)),
       packI(4 * nz) \o packF(axis("z", nz)) >>
    \o fieldBlocks(fields)

\* The call: the dimensions are taken from the arguments and the file is opened
\* for writing (truncated).
vtrCall ==
    /\ pc = "idle"
    /\ UNCHANGED <<readerVars, hdfVars>>
    /\ \E nx \in 0..MaxDim, ny \in 0..MaxDim, nz \in 0..MaxDim :
       \E fields \in FieldLists({"4D", "2D", "bad", "0D"}, <<nx, ny, nz>>) :
          args' = [fn |-> "vtr", nx |-> nx, ny |-> ny, nz |-> nz, fields |-> fields]
    /\ fh' = "open"
    /\ file' = <<>>
    /\ pc' = "header"
    /\ UNCHANGED <<starts, err>>

\* The header writes. 'ndim = value.shape[0]' on a 0-d field raises IndexError
\* inside the with block: the file is closed with the lines written so far.
vtrHeader ==
    /\ pc = "header" /\ args.fn = "vtr"
    /\ UNCHANGED <<readerVars, hdfVars>>
    /\ IF firstScalar(args.fields) = 0
       THEN /\ file' = file \o vtrHeaderLines(args.nx, args.ny, args.nz, args.fields)
            /\ pc' = "payload"
            /\ UNCHANGED <<fh, err>>
       ELSE /\ file' = file \o headerUntilError(
                                  vtrHeaderLines(args.nx, args.ny, args.nz, fieldsBefore(args.fields)),
                                  Len(fieldsBefore(args.fields)))
            /\ pc' = "failed"
            /\ fh' = "closed"
            /\ err' = "IndexError"
    /\ UNCHANGED <<args, starts>>

vtrPayload ==
    /\ pc = "payload" /\ args.fn = "vtr"
    /\ UNCHANGED <<readerVars, hdfVars>>
    /\ LET blocks == vtrBlocks(args.nx, args.ny, args.nz, args.fields)
       IN  /\ file' = file \o marker \o concat(blocks)
           /\ starts' = blockStarts(blocks, 0)
    /\ pc' = "trailer"
    /\ UNCHANGED <<args, fh, err>>

\* The closing lines written through a handle that is never closed.
vtrTrailerLeavesOpen ==
    /\ pc = "trailer" /\ args.fn = "vtr"
    /\ UNCHANGED <<readerVars, hdfVars>>
    /\ file' = file \o trailer
    /\ pc' = "done"
    /\ UNCHANGED <<args, fh, starts, err>>

\* The closing lines; leaving the with block closes the file.
vtrTrailer ==
    /\ pc = "trailer" /\ args.fn = "vtr"
    /\ UNCHANGED <<readerVars, hdfVars>>
    /\ file' = file \o trailer
    /\ fh' = "closed"
    /\ pc' = "done"
    /\ UNCHANGED <<args, starts, err>>

vtr == vtrCall \/ vtrHeader \/ vtrPayload \/ vtrTrailer

----------------------------------------------------------------------------
(* vts(name, x, y, z, **kwargs)                                            *)

\* Whether a 0-based multi-index lies inside an array of the given shape
\* (numpy raises IndexError otherwise).
inBounds(idx, shape) == \A a \in 1..Len(shape) : idx[a] < shape[a]

\* 'for i in range(nx)' for fixed j and k: the indices visited, in order.
loopI(nx, j, k) == [i \in 1..nx |-> <<i - 1, j, k>>]

\* The two inner loops exchanged: i outside, j inside.
loopIJ(nx, ny, k) == concat([i \in 1..nx |-> [j \in 1..ny |-> <<i - 1, j - 1, k>>]])

\* 'for j in range(ny): for i in range(nx)' for fixed k.
loopJI(nx, ny, k) == concat([j \in 1..ny |-> loopI(nx, j - 1, k)])

\* A loop nest with i outermost and k innermost (not the one of vts).
loopIJK(nx, ny, nz) ==
    concat([i \in 1..nx |->
        concat([j \in 1..ny |-> [k \in 1..nz |-> <<i - 1, j - 1, k - 1>>]])])

\* 'for k in range(nz): for j in range(ny): for i in range(nx)': the grid
\* indices (i, j, k) in the order in which vts visits them.
loopKJI(nx, ny, nz) == concat([k \in 1..nz |-> loopJI(nx, ny, k - 1)])

\* The body of the loop nest, run over the indices visited: x[i,j,k],
\* y[i,j,k], z[i,j,k] are written one float at a time; an index outside y or z
\* raises IndexError and what was written before stays in the file.
RECURSIVE pointWrites(_, _, _)
pointWrites(iters, ys, zs) ==
    IF iters = <<>> THEN [words |-> <<>>, err |-> ""]
    ELSE LET idx == Head(iters)
             xw  == packF(<<[arr |-> "x", idx |-> idx]>>)
             yw  == packF(<<[arr |-> "y", idx |-> idx]>>)
             zw  == packF(<<[arr |-> "z", idx |-> idx]>>)
         IN  IF ~inBounds(idx, ys) THEN [words |-> xw, err |-> "IndexError"]
             ELSE IF ~inBounds(idx, zs)
                  THEN [words |-> xw \o yw, err |-> "IndexError"]
                  ELSE LET rest == pointWrites(Tail(iters), ys, zs)
                       IN  [words |-> xw \o yw \o zw \o rest.words,
                            err   |-> rest.err]

vtsHeaderLines(nx, ny, nz, fields) ==
    << [k |-> "VTKFile", type |-> "StructuredGrid"],
       [k |-> "Grid", WholeExtent |-> extent(nx, ny, nz)],
       [k |-> "Piece", Extent |-> extent(nx, ny, nz)],
       tag("<Points>"),
       DataArray("Float32", "Points", 0, 3),
       tag("</Points>") >>
    \o pointData(fields, nx * ny * nz * 3 * 4 + 4)
    \o << tag("</Piece>"), tag("</StructuredGrid>"), tag("<AppendedData>") >>

\* A Points block whose length prefix counts one float per point.
vtsPointsShortPrefix(nx, ny, nz, ys, zs) ==
    LET w == pointWrites(loopKJI(nx, ny, nz), ys, zs)
    IN  [words |-> packI(4 * nx * ny * nz) \o w.words, err |-> w.err]

\* The Points block: the int32 byte length, then the coordinates.
vtsPoints(nx, ny, nz, ys, zs) ==
    LET w == pointWrites(loopKJI(nx, ny, nz), ys, zs)
    IN  [words |-> packI(4 * nx * ny * nz * 3) \o w.words, err |-> w.err]

\* Shapes of y and z a caller may pass with an x of shape dims: the same shape,
\* or one plane less along the first axis.
OtherShapes(dims) ==
    {dims} \cup (IF dims[1] > 0 THEN {<<dims[1] - 1, dims[2], dims[3]>>} ELSE {})

vtsCall ==
    /\ pc = "idle"
    /\ UNCHANGED <<readerVars, hdfVars>>
    /\ \E nx \in 0..MaxDim, ny \in 0..MaxDim, nz \in 0..MaxDim :
       \E ys \in OtherShapes(<<nx, ny, nz>>), zs \in OtherShapes(<<nx, ny, nz>>) :
       \E fields \in FieldLists({"4D", "2D", "bad", "0D"}, <<nx, ny, nz>>) :
          /\ ~(ys # <<nx, ny, nz>> /\ zs # <<nx, ny, nz>>)
          /\ args' = [fn |-> "vts", nx |-> nx, ny |-> ny, nz |-> nz,
                      ys |-> ys, zs |-> zs, fields |-> fields]
    /\ fh' = "open"
    /\ file' = <<>>
    /\ pc' = "header"
    /\ UNCHANGED <<starts, err>>

\* The header writes. 'ndim = value.shape[0]' on a 0-d field raises IndexError
\* inside the with block: the file is closed with the lines written so far.
vtsHeader ==
    /\ pc = "header" /\ args.fn = "vts"
    /\ UNCHANGED <<readerVars, hdfVars>>
    /\ IF firstScalar(args.fields) = 0
       THEN /\ file' = file \o vtsHeaderLines(args.nx, args.ny, args.nz, args.fields)
            /\ pc' = "payload"
            /\ UNCHANGED <<fh, err>>
       ELSE /\ file' = file \o headerUntilError(
                                  vtsHeaderLines(args.nx, args.ny, args.nz, fieldsBefore(args.fields)),
                                  Len(fieldsBefore(args.fields)))
            /\ pc' = "failed"
            /\ fh' = "closed"
            /\ err' = "IndexError"
    /\ UNCHANGED <<args, starts>>

\* The marker and the blocks. An IndexError in the Points loop leaves the with
\* block: the file is closed with what was written, and the call ends.
vtsPayload ==
    /\ pc = "payload" /\ args.fn = "vts"
    /\ UNCHANGED <<readerVars, hdfVars>>
    /\ LET points == vtsPoints(args.nx, args.ny, args.nz, args.ys, args.zs)
           blocks == <<points.words>> \o fieldBlocks(args.fields)
       IN  IF points.err = ""
           THEN /\ file' = file \o marker \o concat(blocks)
                /\ starts' = blockStarts(blocks, 0)
                /\ pc' = "trailer"
                /\ UNCHANGED <<fh, err>>
           ELSE /\ file' = file \o marker \o points.words
                /\ starts' = <<0>>
                /\ pc' = "failed"
                /\ fh' = "closed"
                /\ err' = points.err
    /\ UNCHANGED args

vtsTrailer ==
    /\ pc = "trailer" /\ args.fn = "vts"
    /\ UNCHANGED <<readerVars, hdfVars>>
    /\ file' = file \o trailer
    /\ fh' = "closed"
    /\ pc' = "done"
    /\ UNCHANGED <<args, starts, err>>

vts == vtsCall \/ vtsHeader \/ vtsPayload \/ vtsTrailer

----------------------------------------------------------------------------
(* vtu(name, xyz, cells, cellTypes, **kwargs)                              *)

\* The cell type the test of the module gives every cell.
VTK_VOXEL == 11

\* np.sum(a) of a sequence of integers.
RECURSIVE sum(_)
sum(a) == IF a = <<>> THEN 0 ELSE Head(a) + sum(Tail(a))

\* A prefix sum that leaves out the entry itself.
cumsumExclusive(a) == [i \in 1..Len(a) |-> sum(SubSeq(a, 1, i - 1))]

\* np.cumsum(a): entry i is a[0] + ... + a[i].
cumsum(a) == [i \in 1..Len(a) |-> sum(SubSeq(a, 1, i))]

\* cells[:,0]: the first column, the number of vertices of each cell.
col0(cells) == [i \in 1..Len(cells) |-> cells[i][1]]

\* A header that reserves every index column of every cell for connectivity.
vtuHeaderLinesFullRows(nPoints, nCells, cells, fields) ==
    LET off1 == 0 + nPoints * 3 * 4 + 4
        off2 == off1 + nCells * MaxCols * 4 + 4
        off3 == off2 + nCells * 4 + 4
        off4 == off3 + nCells * 4 + 4
    IN  << [k |-> "VTKFile", type |-> "UnstructuredGrid"],
           tag("<UnstructuredGrid>"),
           [k |-> "Piece", NumberOfPoints |-> str(nPoints),
                           NumberOfCells |-> str(nCells)],
           tag("<Points>"),
           DataArray("Float32", "Points", 0, 3),
           tag("</Points>"),
           tag("<Cells>"),
           DataArray("Int32", "connectivity", off1, 1),
           DataArray("Int32", "offsets", off2, 1),
           DataArray("Int32", "types", off3, 1),
           tag("</Cells>") >>
        \o pointData(fields, off4)
        \o << tag("</Piece>"), tag("</UnstructuredGrid>"), tag("<AppendedData>") >>

vtuHeaderLines(nPoints, nCells, cells, fields) ==
    LET off1 == 0 + nPoints * 3 * 4 + 4
        off2 == off1 + sum(col0(cells)) * 4 + 4
        off3 == off2 + nCells * 4 + 4
        off4 == off3 + nCells * 4 + 4
    IN  << [k |-> "VTKFile", type |-> "UnstructuredGrid"],
           tag("<UnstructuredGrid>"),
           [k |-> "Piece", NumberOfPoints |-> str(nPoints),
                           NumberOfCells |-> str(nCells)],
           tag("<Points>"),
           DataArray("Float32", "Points", 0, 3),
           tag("</Points>"),
           tag("<Cells>"),
           DataArray("Int32", "connectivity", off1, 1),
           DataArray("Int32", "offsets", off2, 1),
           DataArray("Int32", "types", off3, 1),
           tag("</Cells>") >>
        \o pointData(fields, off4)
        \o << tag("</Piece>"), tag("</UnstructuredGrid>"), tag("<AppendedData>") >>

\* '# points': the byte length, then the three coordinates of every vertex.
vtuPoints(nPoints) ==
    packI(4 * nPoints * 3)
    \o concat([i \in 1..nPoints |->
                  packF([c \in 1..3 |-> [arr |-> "xyz", idx |-> <<i - 1, c - 1>>]])])

\* A loop that writes cells[i,j] for cells[i,j+1]: the count comes first.
RECURSIVE cellWritesFromCount(_, _)
cellWritesFromCount(row, j) ==
    IF j >= row[1] THEN [words |-> <<>>, err |-> ""]
    ELSE IF j + 1 > Len(row) - 1 THEN [words |-> <<>>, err |-> "IndexError"]
         ELSE LET rest == cellWritesFromCount(row, j + 1)
              IN  [words |-> packI(row[j + 1]) \o rest.words, err |-> rest.err]

\* 'for j in range(cells[i,0]): fh.write(pack("i", cells[i,j+1]))' from j on,
\* for one row: column j+1 past the last column raises IndexError.
RECURSIVE cellWrites(_, _)
cellWrites(row, j) ==
    IF j >= row[1] THEN [words |-> <<>>, err |-> ""]
    ELSE IF j + 1 > Len(row) - 1 THEN [words |-> <<>>, err |-> "IndexError"]
         ELSE LET rest == cellWrites(row, j + 1)
              IN  [words |-> packI(row[j + 2]) \o rest.words, err |-> rest.err]

\* 'for i in range(nCells)' around it: the rows in order, up to the first error.
RECURSIVE connWrites(_)
connWrites(cells) ==
    IF cells = <<>> THEN [words |-> <<>>, err |-> ""]
    ELSE LET first == cellWrites(Head(cells), 0)
         IN  IF first.err # "" THEN first
             ELSE LET rest == connWrites(Tail(cells))
                  IN  [words |-> first.words \o rest.words, err |-> rest.err]

\* '# connectivity': the byte length 4*np.sum(cells[:,0]), then the indices.
vtuConnectivity(cells) ==
    LET w == connWrites(cells)
    IN  [words |-> packI(4 * sum(col0(cells))) \o w.words, err |-> w.err]

\* '# offsets': the byte length, then np.cumsum(cells[:,0]).
vtuOffsets(nCells, cells) ==
    LET offsets == cumsum(col0(cells))
    IN  packI(4 * nCells) \o concat([i \in 1..nCells |-> packI(offsets[i])])

\* '# types': the byte length, then cellTypes[i] for every cell.
vtuTypes(nCells, cellTypes) ==
    packI(4 * nCells) \o concat([i \in 1..nCells |-> packI(cellTypes[i])])

\* The cells arrays a caller may pass: n rows of 1+MaxCols columns, the first
\* the number of vertices of the cell, the others vertex indices (distinct
\* over the array, numbered row by row).
CellArrays ==
    UNION { { [i \in 1..n |->
                 <<sizes[i]>> \o [j \in 1..MaxCols |-> (i - 1) * MaxCols + (j - 1)]] :
              sizes \in [1..n -> 0..(MaxCols + 1)] } :
            n \in 0..MaxCells }

vtuCall ==
    /\ pc = "idle"
    /\ UNCHANGED <<readerVars, hdfVars>>
    /\ \E nPoints \in 0..MaxDim, cells \in CellArrays :
       \E fields \in FieldLists({"2D", "bad", "0D"}, <<nPoints>>) :
          args' = [fn |-> "vtu", nPoints |-> nPoints, nCells |-> Len(cells),
                   cells |-> cells,
                   cellTypes |-> [i \in 1..Len(cells) |-> VTK_VOXEL],
                   fields |-> fields]
    /\ fh' = "open"
    /\ file' = <<>>
    /\ pc' = "header"
    /\ UNCHANGED <<starts, err>>

\* The header writes. 'ndim = value.shape[0]' on a 0-d field raises IndexError
\* inside the with block: the file is closed with the lines written so far.
vtuHeader ==
    /\ pc = "header" /\ args.fn = "vtu"
    /\ UNCHANGED <<readerVars, hdfVars>>
    /\ IF firstScalar(args.fields) = 0
       THEN /\ file' = file \o vtuHeaderLines(args.nPoints, args.nCells, args.cells, args.fields)
            /\ pc' = "payload"
            /\ UNCHANGED <<fh, err>>
       ELSE /\ file' = file \o headerUntilError(
                                  vtuHeaderLines(args.nPoints, args.nCells, args.cells, fieldsBefore(args.fields)),
                                  Len(fieldsBefore(args.fields)))
            /\ pc' = "failed"
            /\ fh' = "closed"
            /\ err' = "IndexError"
    /\ UNCHANGED <<args, starts>>

\* The marker and the blocks. An IndexError in the connectivity loop leaves
\* the with block: the file is closed with what was written, and the call ends.
vtuPayload ==
    /\ pc = "payload" /\ args.fn = "vtu"
    /\ UNCHANGED <<readerVars, hdfVars>>
    /\ LET conn   == vtuConnectivity(args.cells)
           blocks == << vtuPoints(args.nPoints),
                        conn.words,
                        vtuOffsets(args.nCells, args.cells),
                        vtuTypes(args.nCells, args.cellTypes) >>
                     \o fieldBlocks(args.fields)
       IN  IF conn.err = ""
           THEN /\ file' = file \o marker \o concat(blocks)
                /\ starts' = blockStarts(blocks, 0)
                /\ pc' = "trailer"
                /\ UNCHANGED <<fh, err>>
           ELSE /\ file' = file \o marker \o vtuPoints(args.nPoints) \o conn.words
                /\ starts' = blockStarts(<<vtuPoints(args.nPoints), conn.words>>, 0)
                /\ pc' = "failed"
                /\ fh' = "closed"
                /\ err' = conn.err
    /\ UNCHANGED args

vtuTrailer ==
    /\ pc = "trailer" /\ args.fn = "vtu"
    /\ UNCHANGED <<readerVars, hdfVars>>
    /\ file' = file \o trailer
    /\ fh' = "closed"
    /\ pc' = "done"
    /\ UNCHANGED <<args, starts, err>>

vtu == vtuCall \/ vtuHeader \/ vtuPayload \/ vtuTrailer

----------------------------------------------------------------------------

Init ==
    /\ pc = "idle"
    /\ args = [fn |-> "none"]
    /\ fh = "none"
    /\ file = <<>>
    /\ starts = <<>>
    /\ err = ""
    /\ self = [made |-> FALSE]
    /\ disk = 0
    /\ handles = <<>>
    /\ rpc = "none"
    /\ loc = [made |-> FALSE]
    /\ calls = 0
    /\ lastCall = ""
    /\ rerr = ""
    /\ h5self = [made |-> FALSE]
    /\ h5file = [datasets |-> <<>>, groups |-> {}]
    /\ h5calls = 0
    /\ h5last = [op |-> ""]
    /\ h5err = ""

Next == vtr \/ vts \/ vtu

Spec == Init /\ [][Next]_vars

----------------------------------------------------------------------------
(* Reading a file back: the views the properties are stated on             *)

isWord(it) == it.k \in {"i32", "f32"}
isDataArray(it) == it.k = "DataArray"

\* The call has returned normally: the file is written and closed.
Completed(fn) == args.fn = fn /\ pc = "done"

\* The DataArray descriptors of the header, in declaration order.
Descs == SelectSeq(file, isDataArray)

\* The place of the marker "_" in the file (0 when it has not been written).
MarkerAt == IF \E i \in 1..Len(file) : file[i].k = "_"
            THEN CHOOSE i \in 1..Len(file) : file[i].k = "_"
            ELSE 0

\* What was written after the marker, and the 4-byte words among it.
Appended == SubSeq(file, MarkerAt + 1, Len(file))
Words == SelectSeq(Appended, isWord)

\* Block d as the writer laid it down: it starts at the byte offset starts[d]
\* (counted from the marker) with its length prefix, and its data runs to the
\* start of the next block, or to the end of the words for the last block.
BlockEnd(d) == IF d < Len(starts) THEN starts[d + 1] ELSE 4 * Len(Words)
BlockPrefix(d) == Appended[(starts[d] \div 4) + 1]
BlockData(d) == SubSeq(Appended, (starts[d] \div 4) + 2, BlockEnd(d) \div 4)

\* The arrays whose elements the block of a descriptor holds.
SourcesOf(name) ==
    IF name = "Points"
    THEN (IF args.fn = "vts" THEN {"x", "y", "z"} ELSE {"xyz"})
    ELSE {name}

\* The number of geometry (and cell) descriptors that precede the fields.
NGeom == CASE args.fn = "vtr" -> 3 [] args.fn = "vts" -> 1 [] args.fn = "vtu" -> 4

\* The names of the geometry (and cell) arrays, in the order of the format.
GeomNames == CASE args.fn = "vtr" -> <<"x", "y", "z">>
               [] args.fn = "vts" -> <<"Points">>
               [] args.fn = "vtu" -> <<"Points", "connectivity", "offsets", "types">>

\* The float32 word that holds element idx of the array arr.
F32(arr, idx) == [k |-> "f32", src |-> [arr |-> arr, idx |-> idx]]

----------------------------------------------------------------------------
(* Properties                                                              *)

\* C1: in every completed call of vtr and of vts, every descriptor of the
\* header (x, y, z or Points, then each field) declares as its offset the
\* number of bytes written after the marker and before the int32 length prefix
\* of the block of that array.
C1_OffsetIntegrity ==
    (Completed("vtr") \/ Completed("vts")) =>
        LET D == Descs
        IN  /\ Len(D) = Len(starts)
            /\ \A d \in 1..Len(D) :
                  LET data == BlockData(d)
                  IN  /\ int(D[d].offset) = starts[d]
                      /\ BlockPrefix(d).k = "i32"
                      /\ \A q \in 1..Len(data) :
                            /\ data[q].k = "f32"
                            /\ data[q].src.arr \in SourcesOf(D[d].name)

\* A completed vtr call with two non-empty fields: the second field's block
\* starts after the axes and the first field.
C1_Witness ==
    /\ Completed("vtr")
    /\ Len(args.fields) = 2
    /\ Len(Descs) = 5
    /\ int(Descs[5].offset) = starts[5]
    /\ starts[5] > starts[4] + 4
    /\ Len(BlockData(5)) > 0

\* C2: in a vtu call whose cell sizes all lie between 0 and the number of index
\* columns, the offsets declared for Points, connectivity, offsets, types and
\* each field are the byte positions of the length prefixes of their blocks;
\* connectivity takes 4 + 4*sum(cells[:,0]) bytes, offsets and types take
\* 4 + 4*nCells bytes each.
C2_VtuOffsetIntegrity ==
    ( /\ Completed("vtu")
      /\ \A i \in 1..Len(args.cells) :
            args.cells[i][1] >= 0 /\ args.cells[i][1] <= Len(args.cells[i]) - 1 ) =>
        LET D == Descs
        IN  /\ Len(D) = Len(starts)
            /\ \A d \in 1..Len(D) :
                  /\ int(D[d].offset) = starts[d]
                  /\ BlockPrefix(d).k = "i32"
            /\ [d \in 1..4 |-> D[d].name] = <<"Points", "connectivity", "offsets", "types">>
            /\ BlockEnd(2) - starts[2] = 4 + 4 * sum(col0(args.cells))
            /\ BlockEnd(3) - starts[3] = 4 + 4 * args.nCells
            /\ BlockEnd(4) - starts[4] = 4 + 4 * args.nCells

\* A completed vtu call with two cells of different sizes, one of them empty,
\* and a field after the cell arrays.
C2_Witness ==
    /\ Completed("vtu")
    /\ args.nCells = 2 /\ args.nPoints = 2
    /\ args.cells[1][1] = 0 /\ args.cells[2][1] = 2
    /\ Len(args.fields) = 1
    /\ int(Descs[5].offset) = starts[5]
    /\ BlockEnd(2) - starts[2] = 12

\* C3: the whole header precedes the single marker; after the marker come the
\* blocks, one per descriptor and in the order of the descriptors: the
\* geometry (and cell) arrays, then the fields in the order of the mapping.
C3_HeaderThenBlocksInOrder ==
    (Completed("vtr") \/ Completed("vts") \/ Completed("vtu")) =>
        LET D  == Descs
            m  == MarkerAt
            nW == Len(Words)
        IN  /\ m > 0
            /\ \A i \in 1..Len(file) :
                  /\ file[i].k = "_" => i = m
                  /\ file[i].k \in {"DataArray", "VTKFile", "Grid", "Piece"} => i < m
                  /\ isWord(file[i]) => (i > m /\ i <= m + nW)
            /\ Len(starts) = Len(D)
            /\ Len(D) = NGeom + Len(args.fields)
            /\ \A d \in 1..Len(D) :
                  LET data == BlockData(d)
                  IN  /\ D[d].name = (IF d <= NGeom THEN GeomNames[d]
                                      ELSE args.fields[d - NGeom].name)
                      /\ d > 1 => starts[d] > starts[d - 1]
                      /\ BlockPrefix(d).k = "i32"
                      /\ d > NGeom => Len(data) = size(args.fields[d - NGeom].shape)
                      /\ \A q \in 1..Len(data) :
                            data[q].k = "f32" => data[q].src.arr \in SourcesOf(D[d].name)

\* A completed vtu call with two fields of different sizes: six descriptors,
\* six blocks, the two field blocks last and in insertion order.
C3_Witness ==
    /\ Completed("vtu")
    /\ Len(args.fields) = 2
    /\ Len(starts) = 6
    /\ Descs[5].name = "V3" /\ Descs[6].name = "Pressure"
    /\ Len(BlockData(5)) > Len(BlockData(6))
    /\ Len(BlockData(6)) > 0
    /\ BlockData(6)[1].src.arr = "Pressure"

C5_ScalarColumnMajor ==
    (Completed("vtr") \/ Completed("vts")) =>
        \A f \in 1..Len(args.fields) :
            LET shape == args.fields[f].shape
            IN  (Len(shape) = 4 /\ shape[1] = 1) =>
                LET a == shape[2]
                    b == shape[3]
                    c == shape[4]
                    data == BlockData(NGeom + f)
                IN  /\ Len(data) = a * b * c
                    /\ \A i \in 0..(a - 1), j \in 0..(b - 1), k \in 0..(c - 1) :
                          data[(i + j * a + k * a * b) + 1]
                              = F32(args.fields[f].name, <<0, i, j, k>>)

\* A completed vts call on a 2 x 2 x 2 grid with the scalar field as a 4D
\* array: position 6 = 0 + 1*2 + 1*4 of its block holds element [0, 0, 1, 1].
C5_Witness ==
    /\ Completed("vts")
    /\ args.nx = 2 /\ args.ny = 2 /\ args.nz = 2
    /\ Len(args.fields) = 1
    /\ args.fields[1].shape = <<1, 2, 2, 2>>
    /\ BlockData(2)[7] = F32("Pressure", <<0, 0, 1, 1>>)

\* The points of the grid a field of the given shape has a value on.
NPoints(shape) == size(Tail(shape))

\* The number of points of the grid of the call.
GridPoints == IF args.fn = "vtu" THEN args.nPoints ELSE args.nx * args.ny * args.nz

\* C6 as stated: the block of a field of C > 1 components (with one value per
\* component and grid point) is component-major, all values of component 0,
\* then all values of component 1, and so on.
C6_ComponentMajor ==
    (Completed("vtr") \/ Completed("vts") \/ Completed("vtu")) =>
        \A f \in 1..Len(args.fields) :
            LET shape == args.fields[f].shape
                C == shape[1]
                N == NPoints(shape)
                data == BlockData(NGeom + f)
            IN  (C > 1 /\ N = GridPoints) =>
                \A q \in 0..(Len(data) - 1) : data[q + 1].src.idx[1] = q \div N

\* C6 as amended: the block of a field of C > 1 components is point-major.
\* The array is flattened as a whole with the component axis fastest, so
\* position c + C*p holds component c of grid point p (p the column-major
\* position of the point): the components of one point are adjacent.
C6_PointMajor ==
    (Completed("vtr") \/ Completed("vts") \/ Completed("vtu")) =>
        \A f \in 1..Len(args.fields) :
            LET shape == args.fields[f].shape
                name == args.fields[f].name
                C == shape[1]
                data == BlockData(NGeom + f)
            IN  C > 1 =>
                /\ Len(data) = size(shape)
                /\ Len(shape) = 2 =>
                      \A c \in 0..(C - 1), p \in 0..(shape[2] - 1) :
                          data[(c + C * p) + 1] = F32(name, <<c, p>>)
                /\ Len(shape) = 4 =>
                      \A c \in 0..(C - 1), i \in 0..(shape[2] - 1),
                         j \in 0..(shape[3] - 1), k \in 0..(shape[4] - 1) :
                          data[(c + C * (i + shape[2] * (j + shape[3] * k))) + 1]
                              = F32(name, <<c, i, j, k>>)

\* A completed vtr call with the 2-component field on 4 points: the block
\* starts with both components of point 0, then both components of point 1.
C6_Witness ==
    /\ Completed("vtr")
    /\ args.nx = 2 /\ args.ny = 2 /\ args.nz = 1
    /\ Len(args.fields) = 1
    /\ args.fields[1].shape = <<2, 2, 2, 1>>
    /\ BlockData(4)[1] = F32("V2", <<0, 0, 0, 0>>)
    /\ BlockData(4)[2] = F32("V2", <<1, 0, 0, 0>>)
    /\ BlockData(4)[3] = F32("V2", <<0, 1, 0, 0>>)

\* C7: vts writes the Points block with k outermost and i innermost: tuple
\* p = i + j*nx + k*nx*ny of the block is x[i,j,k], y[i,j,k], z[i,j,k], the
\* block holds nx*ny*nz tuples and its length prefix is 4*3*nx*ny*nz.
C7_PointsOrder ==
    Completed("vts") =>
        LET nx == args.nx
            ny == args.ny
            nz == args.nz
            data == BlockData(1)
        IN  /\ Descs[1].name = "Points"
            /\ BlockPrefix(1) = [k |-> "i32", n |-> 4 * 3 * nx * ny * nz]
            /\ Len(data) = 3 * nx * ny * nz
            /\ \A i \in 0..(nx - 1), j \in 0..(ny - 1), k \in 0..(nz - 1) :
                  LET p == i + j * nx + k * nx * ny
                  IN  /\ data[3 * p + 1] = F32("x", <<i, j, k>>)
                      /\ data[3 * p + 2] = F32("y", <<i, j, k>>)
                      /\ data[3 * p + 3] = F32("z", <<i, j, k>>)

\* A completed vts call on a 2 x 2 x 2 grid: tuple 5 = 1 + 0*2 + 1*4 of the
\* Points block is the point (1, 0, 1).
C7_Witness ==
    /\ Completed("vts")
    /\ args.nx = 2 /\ args.ny = 2 /\ args.nz = 2
    /\ BlockPrefix(1).n = 96
    /\ BlockData(1)[16] = F32("x", <<1, 0, 1>>)
    /\ BlockData(1)[17] = F32("y", <<1, 0, 1>>)
    /\ BlockData(1)[18] = F32("z", <<1, 0, 1>>)

\* The tuple position of grid point (i, j, k) in a Points block.
PointPos(data, i, j, k) ==
    CHOOSE t \in 0..((Len(data) \div 3) - 1) : data[3 * t + 1] = F32("x", <<i, j, k>>)

\* The position of the value of grid point (i, j, k) in a scalar field's block.
FieldPos(data, name, i, j, k) ==
    CHOOSE q \in 0..(Len(data) - 1) : data[q + 1] = F32(name, <<0, i, j, k>>)

\* A vts call with a scalar field of shape (1, nx, ny, nz).
HasScalar4D(f) ==
    /\ f \in 1..Len(args.fields)
    /\ Len(args.fields[f].shape) = 4
    /\ args.fields[f].shape[1] = 1

\* A grid with points, and more than one point along at least two axes.
TwoAxes == /\ args.nx >= 1 /\ args.ny >= 1 /\ args.nz >= 1
           /\ \/ args.nx > 1 /\ args.ny > 1
              \/ args.nx > 1 /\ args.nz > 1
              \/ args.ny > 1 /\ args.nz > 1

\* C8 as stated: on a grid with more than one point along at least two axes,
\* the points are not laid out as the values of a scalar field are: some grid
\* point (i, j, k) has a position in the Points block that differs from the
\* position of its value in the field's block.
C8_OppositeOrder ==
    (Completed("vts") /\ TwoAxes) =>
        \A f \in 1..Len(args.fields) :
            HasScalar4D(f) =>
            LET points == BlockData(1)
                data == BlockData(1 + f)
                name == args.fields[f].name
            IN  \E i \in 0..(args.nx - 1), j \in 0..(args.ny - 1), k \in 0..(args.nz - 1) :
                    PointPos(points, i, j, k) # FieldPos(data, name, i, j, k)

\* C8 as amended: the loop nest of the points (k outermost, i innermost) and
\* the column-major flattening of the fields give the same order: every grid
\* point (i, j, k) has the same position, i + j*nx + k*nx*ny, in the Points
\* block and in the block of a scalar field of shape (1, nx, ny, nz).
C8_SameOrder ==
    Completed("vts") =>
        \A f \in 1..Len(args.fields) :
            HasScalar4D(f) =>
            LET points == BlockData(1)
                data == BlockData(1 + f)
                name == args.fields[f].name
            IN  \A i \in 0..(args.nx - 1), j \in 0..(args.ny - 1), k \in 0..(args.nz - 1) :
                    /\ PointPos(points, i, j, k) = FieldPos(data, name, i, j, k)
                    /\ PointPos(points, i, j, k) = i + j * args.nx + k * args.nx * args.ny

\* A completed vts call on a 2 x 2 x 2 grid with the scalar field as a 4D
\* array: the point (0, 1, 1) is at position 6 of both blocks.
C8_Witness ==
    /\ Completed("vts") /\ TwoAxes
    /\ args.nx = 2 /\ args.ny = 2 /\ args.nz = 2
    /\ HasScalar4D(1)
    /\ PointPos(BlockData(1), 0, 1, 1) = 6
    /\ FieldPos(BlockData(2), args.fields[1].name, 0, 1, 1) = 6

DeclaredPoints ==
    LET i == CHOOSE i \in 1..Len(file) : file[i].k = "Piece"
    IN  int(file[i].NumberOfPoints)

\* The payload of a vtu call has been written (completely or up to an error).
VtuWritten == args.fn = "vtu" /\ pc \in {"trailer", "done", "failed"} /\ starts # <<>>

\* C11: for every cell list with which a call of vtu completes, the entries of
\* the written offsets block are strictly increasing.
C11_StrictlyIncreasing ==
    Completed("vtu") =>
        LET data == BlockData(3)
        IN  \A i \in 1..(Len(data) - 1) : data[i].n < data[i + 1].n

\* C12: every vertex index vtu writes to the connectivity block lies in
\* [0, N_vertices), N_vertices being the NumberOfPoints of the header (here for
\* calls with at least one vertex).
C12_IndicesInRange ==
    (VtuWritten /\ args.nPoints >= 1) =>
        LET data == BlockData(2)
        IN  \A q \in 1..Len(data) :
                0 <= data[q].n /\ data[q].n < DeclaredPoints

\* The blocks a reader finds by walking the payload from the marker: at word
\* `at` an int32 byte length, then that many bytes of data, then the next
\* block. The walk stops at a length that is not an int32 word.
RECURSIVE WalkBlocks(_, _)
WalkBlocks(words, at) ==
    IF at > Len(words) THEN <<>>
    ELSE IF words[at].k # "i32"
         THEN <<[start |-> 4 * (at - 1), readable |-> FALSE, data |-> <<>>]>>
         ELSE LET n == words[at].n \div 4
              IN  <<[start |-> 4 * (at - 1), readable |-> TRUE,
                     data |-> SubSeq(words, at + 1, at + n)]>>
                  \o WalkBlocks(words, at + 1 + n)

\* The header holds the line t.
HasTag(t) == \E i \in 1..Len(file) : file[i] = tag(t)

\* The names of the fields of the call, in the order they were passed.
FieldNames == [f \in 1..Len(args.fields) |-> args.fields[f].name]

\* C13: a file written by vtr, vts or vtu has a PointData element in its header
\* if and only if at least one field is supplied; with no field the payload
\* holds exactly the geometry blocks (x, y, z for vtr; Points for vts; Points,
\* connectivity, offsets, types for vtu), and with n fields exactly n more.
C13_PointDataIffFields ==
    (pc = "done" /\ args.fn \in {"vtr", "vts", "vtu"}) =>
        LET n == Len(args.fields)
            D == Descs
            blocks == WalkBlocks(Words, 1)
        IN  /\ HasTag("<PointData>") <=> n >= 1
            /\ HasTag("</PointData>") <=> n >= 1
            /\ Len(blocks) = NGeom + n
            /\ \A b \in 1..Len(blocks) : blocks[b].readable
            /\ [d \in 1..Len(D) |-> D[d].name] = GeomNames \o FieldNames

\* A completed vtr call on a 2 x 1 x 1 grid without any field: no PointData
\* element, and the three blocks x, y, z.
C13_Witness ==
    /\ Completed("vtr")
    /\ args.nx = 2 /\ args.ny = 1 /\ args.nz = 1
    /\ Len(args.fields) = 0
    /\ ~HasTag("<PointData>")
    /\ Len(WalkBlocks(Words, 1)) = 3
    /\ WalkBlocks(Words, 1)[1].data = <<F32("x", <<0>>), F32("x", <<1>>)>>

----------------------------------------------------------------------------
(* vtrreader.reader(file): reading a .vtr file back                        *)

\* What the XML reader of the VTK library hands over for descriptor d of the
\* header: it goes to the declared offset after the marker, reads the int32
\* byte length found there and then that many bytes as 4-byte values.
vtkRead(d) ==
    LET at == (int(Descs[d].offset) \div 4) + 1
        n  == Appended[at].n \div 4
    IN  SubSeq(Appended, at + 1, at + n)

\* The number of points VTK takes for an axis from "first last" of the extent.
vtkExtent(first, last) == int(last) - int(first) + 1

\* A reshape of the (N, C) array to (C, N) that keeps the flat order.
readerPointReshaped(d) ==
    LET flat == vtkRead(d)
        C == int(Descs[d].ncomp)
        N == Len(flat) \div C
    IN  [c \in 1..C |-> [p \in 1..N |-> flat[(c - 1) * N + p]]]

\* The loop over the point arrays: VTK gives an array of N tuples of C
\* components ((N, C), or (N,) for one component); with more than one
\* dimension it is transposed to (C, N), else reshaped to (1, N).
readerPoint(d) ==
    LET flat == vtkRead(d)
        C == int(Descs[d].ncomp)
        N == Len(flat) \div C
    IN  IF C > 1
        THEN [c \in 1..C |-> [p \in 1..N |-> flat[(p - 1) * C + c]]]
        ELSE <<flat>>

\* The field was passed as a 2D array (C, n) with n the number of grid points.
Is2DOnGrid(f) ==
    /\ Len(args.fields[f].shape) = 2
    /\ args.fields[f].shape[2] = GridPoints

\* C14: for a rectilinear grid with axes of sizes (nx, ny, nz) and a field of
\* shape (C, nx*ny*nz), reading the file vtr wrote by the declared offsets and
\* the length prefixes gives axes of nx, ny and nz elements (the axes' own
\* elements in order) and, for the field, C*nx*ny*nz elements of which
\* component c of point p is the input element [c, p].
C14_RoundTrip ==
    Completed("vtr") =>
        LET ext == (CHOOSE l \in {file[i] : i \in 1..Len(file)} : l.k = "Piece").Extent
        IN  /\ vtkRead(1) = packF(axis("x", args.nx))
            /\ vtkRead(2) = packF(axis("y", args.ny))
            /\ vtkRead(3) = packF(axis("z", args.nz))
            /\ vtkExtent(ext[1], ext[2]) = args.nx
            /\ vtkExtent(ext[3], ext[4]) = args.ny
            /\ vtkExtent(ext[5], ext[6]) = args.nz
            /\ \A f \in 1..Len(args.fields) :
                  Is2DOnGrid(f) =>
                      LET C == args.fields[f].shape[1]
                          N == args.nx * args.ny * args.nz
                          array == readerPoint(3 + f)
                      IN  /\ Descs[3 + f].name = args.fields[f].name
                          /\ Len(vtkRead(3 + f)) = C * N
                          /\ Len(array) = C
                          /\ \A c \in 1..C :
                                /\ Len(array[c]) = N
                                /\ \A p \in 1..N :
                                      array[c][p] = F32(args.fields[f].name, <<c - 1, p - 1>>)

\* A completed vtr call on a 2 x 1 x 1 grid with the 2-component field as a
\* (2, 2) array: read back, row c of the field holds component c of both points.
C14_Witness ==
    /\ Completed("vtr")
    /\ args.nx = 2 /\ args.ny = 1 /\ args.nz = 1
    /\ Len(args.fields) = 1
    /\ args.fields[1] = [name |-> "V2", shape |-> <<2, 2>>]
    /\ readerPoint(4) = << <<F32("V2", <<0, 0>>), F32("V2", <<0, 1>>)>>,
                           <<F32("V2", <<1, 0>>), F32("V2", <<1, 1>>)>> >>

----------------------------------------------------------------------------
(* Calls with arguments that do not fit                                    *)

\* A writer has been called, and one of its fields does not hold one value
\* per component (shape[0]) and grid point.
ShapeMismatch ==
    /\ args.fn \in {"vtr", "vts", "vtu"}
    /\ \E f \in 1..Len(args.fields) :
          /\ args.fields[f].shape # <<>>
          /\ size(args.fields[f].shape) # args.fields[f].shape[1] * GridPoints

\* C15: if a field passed to vtr, vts or vtu has a total element count that
\* differs from shape[0] times the number of grid points, the call fails with
\* a shape-mismatch error and no byte is written to the output file (here on
\* grids with at least one point).
C15_MismatchFails ==
    (ShapeMismatch /\ GridPoints >= 1) => (file = <<>> /\ pc # "done")

\* The header has been written to its last line.
HeaderComplete == HasTag("<AppendedData>")

\* A block the header declares is missing from the payload, or is shorter than
\* its length prefix says.
PayloadTruncated ==
    \E d \in 1..Len(Descs) :
        LET at == (int(Descs[d].offset) \div 4) + 1
        IN  \/ at > Len(Words)
            \/ Words[at].k = "i32" /\ at + (Words[at].n \div 4) > Len(Words)

\* C16: whenever a call of vtr, vts or vtu ends with an error, the output file
\* does not hold a complete header followed by a missing or truncated payload.
C16_NoTruncatedFile ==
    pc = "failed" => ~(HeaderComplete /\ PayloadTruncated)

----------------------------------------------------------------------------
(* binaryreader.py: Python values, struct and numpy                        *)

\* The values whose type the code tests: None, an int, a str (a sequence of
\* characters).
PyNone == [type |-> "NoneType"]
PyInt(n) == [type |-> "int", v |-> n]
PyStr(s) == [type |-> "str", v |-> s]

\* n*s for a str s: n copies of s, one after the other.
repeat(n, s) == concat([i \in 1..n |-> s])

\* The size in bytes of one value of a struct type character.
typeSize(t) == CASE t = "d" -> 8 [] t = "f" -> 4

\* The format starts with the byte-order character '<': standard sizes and no
\* alignment; without it, native sizes and alignment.
fmtStandard(fmt) == fmt # <<>> /\ Head(fmt) = "<"

\* The items of the format after the byte-order character: an optional repeat
\* count in decimal digits, then a type character. A count without a type, or
\* any other character, is an error of the format (struct.error).
RECURSIVE fmtItems(_, _)
fmtItems(s, rep) ==
    IF s = <<>>
    THEN (IF rep = -1 THEN <<>> ELSE <<[n |-> 0, t |-> "error"]>>)
    ELSE IF \E d \in 1..10 : DigitChars[d] = Head(s)
         THEN fmtItems(Tail(s), 10 * (IF rep = -1 THEN 0 ELSE rep) + DigitVal(Head(s)))
         ELSE IF Head(s) \in {"d", "f"}
              THEN <<[n |-> (IF rep = -1 THEN 1 ELSE rep), t |-> Head(s)]>>
                   \o fmtItems(Tail(s), -1)
              ELSE <<[n |-> 0, t |-> "error"]>>

fmtParsed(fmt) == fmtItems(IF fmtStandard(fmt) THEN Tail(fmt) ELSE fmt, -1)

\* struct raises struct.error for this format.
fmtBad(fmt) == \E i \in 1..Len(fmtParsed(fmt)) : fmtParsed(fmt)[i].t = "error"

\* The type of each scalar of a record, repeat counts expanded.
fmtTypes(fmt) ==
    LET items == fmtParsed(fmt)
    IN  concat([i \in 1..Len(items) |-> [j \in 1..items[i].n |-> items[i].t]])

\* The byte offset of each scalar in a record: in native mode every scalar is
\* aligned to a multiple of its size, in standard mode they are packed.
RECURSIVE fieldOffsets(_, _, _)
fieldOffsets(types, at, standard) ==
    IF types = <<>> THEN <<>>
    ELSE LET sz == typeSize(Head(types))
             a  == IF standard THEN at ELSE ((at + sz - 1) \div sz) * sz
         IN  <<a>> \o fieldOffsets(Tail(types), a + sz, standard)

\* calcsize(fmt): the number of bytes of a record.
calcsize(fmt) ==
    LET types == fmtTypes(fmt)
        offs  == fieldOffsets(types, 0, fmtStandard(fmt))
    IN  IF types = <<>> THEN 0
        ELSE offs[Len(types)] + typeSize(types[Len(types)])

\* unpack(fmt, buffer) for the buffer read at byte `at` of the file: one value
\* per scalar, the bytes at its offset decoded as its type.
unpack(fmt, at) ==
    LET types == fmtTypes(fmt)
        offs  == fieldOffsets(types, 0, fmtStandard(fmt))
    IN  [j \in 1..Len(types) |-> [at |-> at + offs[j], t |-> types[j]]]

\* np.array(t) of a tuple: a one-dimensional array. np.array(()) has shape (0,).
array(t) == [shape |-> <<Len(t)>>, v |-> t]

\* The number of columns np.vstack sees in an array of one or two dimensions.
columns(a) == a.shape[Len(a.shape)]

\* The number of rows np.vstack sees: a one-dimensional array is one row.
rows(a) == IF Len(a.shape) = 1 THEN 1 ELSE a.shape[1]

\* np.vstack((a, b)) with b one-dimensional of as many columns as a: the rows
\* of a, then b as one more row. With different numbers of columns numpy
\* raises ValueError.
vstack(a, b) == [shape |-> <<rows(a) + 1, columns(a)>>, v |-> a.v \o b.v]

\* The formats passed to customize: the empty format, one and two scalars,
\* mixed sizes (aligned in native mode), a repeat count, a byte-order
\* character, and two strings struct does not accept.
FormatPool == { <<>>, <<"d">>, <<"f", "f">>, <<"f", "d">>, <<"d", "f">>,
                <<"3", "f">>, <<"<", "f", "d">>, <<"3">>, <<"f", "<">> }

\* The loop counter is followed up to this value (no file of the model has
\* that many records).
MaxCount == MaxBytes + MaxTrunc + 1

----------------------------------------------------------------------------
(* class BinaryReader                                                      *)

\* open(name, mode='rb'): a new handle at the start of the file.
open == [pos |-> 0, closed |-> FALSE]

\* BinaryReader(name, prec): the defaults of the attributes, and the file
\* opened when a name is given. self.fh is the number of the handle in
\* `handles`, 0 for None. The file on disk has any size up to MaxBytes.
BinaryReader_init ==
    /\ rpc = "none"
    /\ \E B \in 0..MaxBytes, prec \in {"d", "f"}, named \in BOOLEAN :
          /\ disk' = B
          /\ self' = [nrows |-> 0, ncols |-> 0, data |-> array(<<>>),
                      prec |-> <<prec>>, fh |-> (IF named THEN 1 ELSE 0),
                      customized |-> FALSE, fmt |-> PyNone, nbytes |-> 0]
          /\ handles' = IF named THEN <<open>> ELSE <<>>
    /\ rpc' = "idle"
    /\ lastCall' = "init"
    /\ UNCHANGED <<loc, calls, rerr>>
    /\ UNCHANGED <<writerVars, hdfVars>>

\* file(name): self.fh is a new handle; the one it held is not closed.
BinaryReader_file ==
    /\ rpc = "idle"
    /\ Len(handles) < MaxOpens
    /\ handles' = Append(handles, open)
    /\ self' = [self EXCEPT !.fh = Len(handles) + 1]
    /\ lastCall' = "file"
    /\ rerr' = ""
    /\ UNCHANGED <<disk, rpc, loc, calls>>
    /\ UNCHANGED <<writerVars, hdfVars>>

\* customize(fmt), called on a reader that has no format yet: the assert on
\* the type, then fmt, nbytes, ncols and customized in this order; calcsize
\* raises struct.error for a string that is no format, after fmt is set.
customize ==
    /\ rpc = "idle"
    /\ self.fmt = PyNone
    /\ \E fmt \in {PyNone} \cup {PyStr(f) : f \in FormatPool} :
          IF fmt.type # "str"
          THEN /\ rerr' = "AssertionError"
               /\ UNCHANGED self
          ELSE IF fmtBad(fmt.v)
          THEN /\ rerr' = "struct.error"
               /\ self' = [self EXCEPT !.fmt = fmt]
          ELSE /\ rerr' = ""
               /\ self' = [self EXCEPT !.fmt = fmt,
                                       !.nbytes = calcsize(fmt.v),
                                       !.ncols = Len(fmt.v),
                                       !.customized = TRUE]
    /\ lastCall' = "customize"
    /\ UNCHANGED <<disk, handles, rpc, loc, calls>>
    /\ UNCHANGED <<writerVars, hdfVars>>

\* An assert that fails after the row width and the column count are reset.
sortAssertFailsLate ==
    /\ rerr' = "AssertionError"
    /\ self' = [self EXCEPT !.nbytes = 0, !.ncols = 0]
    /\ UNCHANGED rpc

\* 'assert(type(ncols) is int)' fails: AssertionError leaves sort before any
\* assignment.
sortAssertFails ==
    /\ rerr' = "AssertionError"
    /\ UNCHANGED <<self, rpc>>

\* sort(ncols, trunc) up to the loop: without a customized format the assert
\* on ncols, then nbytes, ncols and fmt from prec; then toTruncate and count.
\* loc holds the parameters and, once they are set, the locals. With a
\* customized format ncols is never read, and sort is called without it.
sortCall ==
    /\ rpc = "idle"
    /\ calls < MaxSorts
    /\ \E ncols \in {PyNone} \cup (IF self.customized THEN {}
                                   ELSE {PyInt(n) : n \in 0..MaxNCols}),
          trunc \in {PyNone} \cup {PyInt(m) : m \in 0..MaxTrunc} :
          IF self.customized = FALSE /\ ncols.type # "int"
          THEN /\ sortAssertFails
               /\ loc' = [ncols |-> ncols, trunc |-> trunc]
          ELSE /\ self' = IF self.customized = FALSE
                          THEN [self EXCEPT !.nbytes = calcsize(self.prec) * ncols.v,
                                            !.ncols = ncols.v,
                                            !.fmt = PyStr(repeat(ncols.v, self.prec))]
                          ELSE self
               /\ loc' = [ncols |-> ncols, trunc |-> trunc,
                          toTruncate |-> (trunc.type = "int"), count |-> 0]
               /\ rpc' = "loop"
               /\ rerr' = ""
    /\ calls' = calls + 1
    /\ lastCall' = "sort"
    /\ UNCHANGED <<disk, handles>>
    /\ UNCHANGED <<writerVars, hdfVars>>

\* fh.read(nbytes) at position pos: the number of bytes it returns, nbytes or
\* what is left of the file.
readLen(nbytes, pos) == IF disk - pos < nbytes THEN disk - pos ELSE nbytes

\* A test that sees the end of the file only in an empty buffer.
emptyRead(len, nbytes) == len = 0

\* 'if len(buffer) != self.nbytes: break'.
shortRead(len, nbytes) == len # nbytes

\* An exception leaves sort: nrows is not assigned.
sortRaises(e) ==
    /\ rerr' = e
    /\ rpc' = "idle"
    /\ UNCHANGED <<self, loc>>

\* One pass of 'while True:': read, the test for the end of the file, unpack,
\* stack, count, the test of trunc; 'self.nrows = count' follows a break.
sortRead ==
    /\ rpc = "loop"
    /\ loc.count < MaxCount
    /\ IF self.fh = 0
       THEN sortRaises("AttributeError") /\ UNCHANGED handles
       ELSE IF handles[self.fh].closed
       THEN sortRaises("ValueError") /\ UNCHANGED handles
       ELSE LET pos == handles[self.fh].pos
                len == readLen(self.nbytes, pos)
                newline == array(unpack(self.fmt.v, pos))
                count == loc.count + 1
            IN  /\ handles' = [handles EXCEPT ![self.fh].pos = pos + len]
                /\ IF shortRead(len, self.nbytes)
                   THEN /\ self' = [self EXCEPT !.nrows = loc.count]
                        /\ rpc' = "idle"
                        /\ UNCHANGED <<loc, rerr>>
                   ELSE IF size(self.data.shape) # 0
                           /\ columns(self.data) # columns(newline)
                   THEN sortRaises("ValueError")
                   ELSE LET data == IF size(self.data.shape) # 0
                                    THEN vstack(self.data, newline)
                                    ELSE newline
                        IN  /\ loc' = [loc EXCEPT !.count = count]
                            /\ UNCHANGED rerr
                            /\ IF loc.toTruncate /\ count >= loc.trunc.v
                               THEN /\ self' = [self EXCEPT !.data = data,
                                                            !.nrows = count]
                                    /\ rpc' = "idle"
                               ELSE /\ self' = [self EXCEPT !.data = data]
                                    /\ rpc' = "loop"
    /\ UNCHANGED <<disk, calls, lastCall>>
    /\ UNCHANGED <<writerVars, hdfVars>>

sort == sortCall \/ sortRead

\* A form of shape() that asks the data table for its shape.
shapeOfData == self.data.shape

\* shape(): (nrows, ncols).
shape == <<self.nrows, self.ncols>>

\* close(): closes the handle self.fh holds; None has no close.
close ==
    /\ rpc = "idle"
    /\ IF self.fh = 0
       THEN rerr' = "AttributeError" /\ UNCHANGED handles
       ELSE rerr' = "" /\ handles' = [handles EXCEPT ![self.fh].closed = TRUE]
    /\ lastCall' = "close"
    /\ UNCHANGED <<self, disk, rpc, loc, calls>>
    /\ UNCHANGED <<writerVars, hdfVars>>

NextBinaryReader ==
    BinaryReader_init \/ BinaryReader_file \/ customize \/ sort \/ close

SpecBinaryReader == Init /\ [][NextBinaryReader]_vars

----------------------------------------------------------------------------
(* Properties of BinaryReader                                              *)

\* The reader's last call was sort, and it has ended (normally or not).
SortReturned == rpc = "idle" /\ lastCall = "sort"

\* The reader holds a handle that is open: sort had a file to read.
HandleOpen == self.fh # 0 /\ ~handles[self.fh].closed

\* The sort that returned was the first one on a reader with an open file, and
\* its rows are W > 0 bytes wide: it started at byte 0 with an empty table.
FreshSortReturned ==
    /\ SortReturned
    /\ calls = 1
    /\ HandleOpen
    /\ self.nbytes > 0

\* The first n records of the file in the reader's format, value after value.
Records(n) ==
    concat([r \in 1..n |-> unpack(self.fmt.v, (r - 1) * self.nbytes)])

min(a, b) == IF a < b THEN a ELSE b

\* C18: for every integer trunc m >= 0 and a file of R complete rows,
\* sort(ncols, trunc=m) on a fresh reader reads exactly min(m, R) rows, the
\* first min(m, R) rows of the file in file order, and never more than m.
C18_TruncRows ==
    (FreshSortReturned /\ ~self.customized /\ loc.toTruncate) =>
        LET m == loc.trunc.v
            R == disk \div self.nbytes
        IN  /\ rerr = ""
            /\ self.nrows = min(m, R)
            /\ self.nrows <= m
            /\ self.data.v = Records(min(m, R))

\* Row r of the data table, for a table of two dimensions.
Row(r) == SubSeq(self.data.v, (r - 1) * self.data.shape[2] + 1,
                              r * self.data.shape[2])

\* C19: after sort on a fresh reader has read n >= 1 rows of c columns (n = 1
\* included), the data table is two-dimensional with shape (n, c), row r of
\* the table is the r-th record of the file, and shape() returns (n, c)
\* (here for sort without trunc or with trunc >= 1).
C19_TwoDimensional ==
    (/\ FreshSortReturned /\ ~self.customized /\ rerr = "" /\ self.nrows >= 1
     /\ loc.toTruncate => loc.trunc.v >= 1) =>
        LET n == self.nrows
            c == self.ncols
        IN  /\ shape = <<n, c>>
            /\ self.data.shape = <<n, c>>
            /\ \A r \in 1..n : Row(r) = unpack(self.fmt.v, (r - 1) * self.nbytes)

C21_SortTerminates ==
    [][(rpc = "loop" /\ rpc' = "loop") =>
          \/ handles'[self.fh].pos > handles[self.fh].pos
          \/ loc.toTruncate /\ loc'.count > loc.count]_vars

\* C22: if neither a custom format nor an integer ncols has been supplied,
\* sort fails with an error before it reads any byte, and leaves nrows, ncols,
\* fmt, nbytes, data (all of self) and the file position unchanged.
C22_NoFormatFails ==
    [][(/\ rpc = "idle"
        /\ calls' = calls + 1
        /\ ~self.customized
        /\ loc'.ncols.type # "int") =>
          /\ rerr' = "AssertionError"
          /\ rpc' = "idle"
          /\ self' = self
          /\ handles' = handles]_vars

\* A reader that read 2 rows of one float from 8 bytes, then was asked to sort
\* without ncols: the call failed, and the 2 rows and the position are kept.
C22_Witness ==
    /\ SortReturned
    /\ calls = 2
    /\ loc.ncols = PyNone
    /\ rerr = "AssertionError"
    /\ ~self.customized
    /\ self.nrows = 2 /\ self.ncols = 1 /\ self.nbytes = 4
    /\ self.data.shape = <<2, 1>>
    /\ HandleOpen /\ handles[self.fh].pos = 8

----------------------------------------------------------------------------
(* Closing of the output file                                              *)

\* The call ended with an error raised by a header write.
HeaderFailed == pc = "failed" /\ ~HasTag("<AppendedData>")

\* The call ended with an error raised by a payload write.
PayloadFailed == pc = "failed" /\ HasTag("<AppendedData>")

\* C23: the output file opened by vtr, vts or vtu is closed on every exit
\* path: when the call completes, when an error is raised while the header is
\* written, and when an error is raised while the payload is written; the
\* handle is open only while the call is inside the with block.
C23_ClosedOnExit ==
    /\ pc \in {"done", "failed"} => fh = "closed"
    /\ fh = "open" => pc \in {"header", "payload", "trailer"}

\* A call that failed in the header after writing some of its lines, with the
\* file closed.
C23_Witness ==
    /\ HeaderFailed
    /\ err = "IndexError"
    /\ file # <<>>
    /\ file[Len(file)] = tag("<PointData>")
    /\ fh = "closed"

\* A call that failed in the payload, with the file closed.
C23_PayloadWitness == PayloadFailed /\ fh = "closed"

\* A call that completed, with the file closed.
C23_DoneWitness == pc = "done" /\ fh = "closed"

----------------------------------------------------------------------------
(* Closing of the input file                                               *)

\* C24: every file handle opened by BinaryReader is closed on every exit path
\* of the read; here for the path the claim names first: when sort() has
\* completed normally with at least one row, no handle that the reader opened
\* is still open.
C24_ClosedAfterSort ==
    (SortReturned /\ rerr = "" /\ self.nrows >= 1) =>
        \A h \in 1..Len(handles) : handles[h].closed

----------------------------------------------------------------------------
(* Extents of vtr and vts                                                  *)

\* The line of the given kind in the header of the file.
HeaderLine(kind) == file[CHOOSE i \in 1..Len(file) : file[i].k = kind]

\* The three dimensions given to the call: x.size, y.size, z.size for vtr and
\* np.shape(x) for vts.
Dims == <<args.nx, args.ny, args.nz>>

\* C25: in every file completed by vtr or vts, WholeExtent and the Piece
\* Extent are the same six numbers, and they hold per axis the 1-based
\* inclusive range "1 n", n being the dimension of that axis.
C25_Extents ==
    (Completed("vtr") \/ Completed("vts")) =>
        /\ HeaderLine("Grid").WholeExtent = HeaderLine("Piece").Extent
        /\ Len(HeaderLine("Piece").Extent) = 6
        /\ \A a \in 1..3 :
              /\ int(HeaderLine("Piece").Extent[2 * a - 1]) = 1
              /\ int(HeaderLine("Piece").Extent[2 * a]) = Dims[a]

\* A completed vts file of a 2 x 1 x 2 grid whose extents read 1 2 1 1 1 2.
C25_Witness ==
    /\ Completed("vts")
    /\ Dims = <<2, 1, 2>>
    /\ [a \in 1..6 |-> int(HeaderLine("Grid").WholeExtent[a])] = <<1, 2, 1, 1, 1, 2>>
    /\ HeaderLine("Piece").Extent = HeaderLine("Grid").WholeExtent

----------------------------------------------------------------------------
(* 4D and 2D field layouts                                                 *)

\* The 0-based position of the multi-index idx in the column-major (order='F')
\* flattening of an array whose shape is dims.
RECURSIVE ravelF(_, _)
ravelF(idx, dims) ==
    IF idx = <<>> THEN 0
    ELSE Head(idx) + Head(dims) * ravelF(Tail(idx), Tail(dims))

\* value.reshape((value.shape[0], value.size // value.shape[0]), order='F'):
\* the shape of the 2D array.
reshapeF(value) ==
    [name |-> value.name,
     shape |-> <<value.shape[1], size(value.shape) \div value.shape[1]>>]

\* The element that the reshape puts at index idx of the 2D array: the one at
\* the same column-major position of the original array.
reshapedFrom(idx, value) ==
    unravelF(ravelF(idx, reshapeF(value).shape), value.shape)

\* Everything a completed call of vtr or vts with the given fields writes:
\* the header, the marker, the blocks and the closing lines.
writtenFile(a, fields) ==
    IF a.fn = "vtr"
    THEN vtrHeaderLines(a.nx, a.ny, a.nz, fields) \o marker
         \o concat(vtrBlocks(a.nx, a.ny, a.nz, fields)) \o trailer
    ELSE vtsHeaderLines(a.nx, a.ny, a.nz, fields) \o marker
         \o concat(<<vtsPoints(a.nx, a.ny, a.nz, a.ys, a.zs).words>>
                   \o fieldBlocks(fields))
         \o trailer

\* A file written from reshaped fields, each float of a field named by the
\* element of the original array that the reshape put there.
InOriginal(lines, originals) ==
    [i \in 1..Len(lines) |->
        IF lines[i].k = "f32"
           /\ \E f \in 1..Len(originals) : originals[f].name = lines[i].src.arr
        THEN LET f == CHOOSE g \in 1..Len(originals) :
                         originals[g].name = lines[i].src.arr
             IN  [lines[i] EXCEPT !.src.idx = reshapedFrom(@, originals[f])]
        ELSE lines[i]]

\* The fields of the call are all 4D arrays (ndim, nx, ny, nz).
Fields4D ==
    /\ args.fields # <<>>
    /\ \A f \in 1..Len(args.fields) : Len(args.fields[f].shape) = 4

\* C26: for vtr and vts, a field passed as 4D (ndim, nx, ny, nz) and passed as
\* the 2D (ndim, nx*ny*nz) column-major reshape of it give the same file: the
\* completed file of a call with 4D fields is, line for line and value for
\* value, the file that the call writes from the reshaped fields (the same
\* NumberOfComponents, offsets and sequence of values in every block).
C26_SameFile ==
    (Completed("vtr") \/ Completed("vts")) =>
        /\ file = writtenFile(args, args.fields)
        /\ Fields4D =>
              InOriginal(writtenFile(args, [f \in 1..Len(args.fields) |->
                                               reshapeF(args.fields[f])]),
                         args.fields) = file

\* A completed vts call on a 2 x 1 x 2 grid with the 2-component field passed
\* as a 4D array, whose block holds 8 values.
C26_Witness ==
    /\ Completed("vts")
    /\ Dims = <<2, 1, 2>>
    /\ Fields4D
    /\ \E f \in 1..Len(args.fields) :
          /\ args.fields[f] = [name |-> "V2", shape |-> <<2, 2, 1, 2>>]
          /\ reshapeF(args.fields[f]).shape = <<2, 4>>
          /\ reshapedFrom(<<1, 3>>, args.fields[f]) = <<1, 1, 0, 1>>

----------------------------------------------------------------------------
(* Row count after several sorts                                           *)

\* C27: after any sequence of sort calls on one BinaryReader (a call after
\* the end of the file included), the nrows that shape() returns is the
\* number of rows held in the data table; here whenever a sort has returned
\* normally and the table is two-dimensional.
C27_RowsMatch ==
    (SortReturned /\ rerr = "" /\ Len(self.data.shape) = 2) =>
        shape[1] = self.data.shape[1]

----------------------------------------------------------------------------
(* Column count of a customized format                                     *)

\* C28: after customize(fmt) and then sort(), for every accepted fmt (one
\* with a repeat count or a byte-order prefix included), the ncols that
\* shape() returns is the number of scalars unpacked into each row; here
\* whenever the sort has returned normally with at least one row.
C28_ColsMatch ==
    (SortReturned /\ self.customized /\ rerr = "" /\ self.nrows >= 1) =>
        shape[2] = columns(self.data)

----------------------------------------------------------------------------
(* mytools/myhdf5.py: class MyHDF5                                         *)
(*                                                                         *)
(* The HDF5 file is the record of its datasets, a function from names to   *)
(* arrays, and of its groups, a set of names.  An array has two dimensions *)
(* and is held by its shape and its rows; a row is named by the call that  *)
(* brought it and its place in the array given to that call.               *)

\* The names of the module's own test, in the order visititems meets them;
\* "c" is the group that creating "c/data" makes.
ItemNames == <<"a", "b", "c", "c/data">>
DatasetNames == {"a", "b", "c/data"}

\* The shapes (rows, columns) of the arrays a caller passes.
ArrayShapes == {<<1, 1>>, <<2, 1>>, <<1, 2>>}

\* The array of the given shape passed to call number k.
ndarray(k, shp) == [shape |-> shp, v |-> [i \in 1..shp[1] |-> [call |-> k, row |-> i]]]

\* The groups on the path of a name: "c" for "c/data".
parents(n) == IF n = "c/data" THEN {"c"} ELSE {}

\* 'name in fh': a dataset or a group of that name is in the file.
contains(f, n) == n \in DOMAIN f.datasets \/ n \in f.groups

\* fh.create_dataset(name, data=data) for a name that is not in the file: the
\* dataset is added, and so are the groups on its path.
create_dataset(f, n, data) ==
    [datasets |-> [m \in DOMAIN f.datasets \cup {n} |->
                      IF m = n THEN data ELSE f.datasets[m]],
     groups   |-> f.groups \cup parents(n)]

\* 'del fh[name]': the dataset is unlinked; its groups stay.
delete(f, n) ==
    [datasets |-> [m \in DOMAIN f.datasets \ {n} |-> f.datasets[m]],
     groups   |-> f.groups]

\* np.concatenate((a, b)) joins along the first axis and needs equal numbers
\* of columns; otherwise numpy raises ValueError.
concatenable(a, b) == a.shape[2] = b.shape[2]
np_concatenate(a, b) ==
    [shape |-> <<a.shape[1] + b.shape[1], a.shape[2]>>, v |-> a.v \o b.v]

\* info(): dataset and group are rebuilt from a visit of the file.
info(o, f) ==
    [o EXCEPT !.dataset = SelectSeq(ItemNames, LAMBDA n : n \in DOMAIN f.datasets),
              !.group   = SelectSeq(ItemNames, LAMBDA n : n \in f.groups)]

\* The 'dataset' arguments of append and concatenate at call k: a dict of one
\* name and array, an empty dict, and an object that is not a dict.
DatasetArgs(k) ==
    { [type |-> "dict", items |-> <<[key |-> n, value |-> ndarray(k, shp)]>>] :
         n \in DatasetNames, shp \in ArrayShapes }
    \cup { [type |-> "dict", items |-> <<>>], [type |-> "list"] }

\* assert(isinstance(dataset, dict)); assert(len(dataset) == 1)
isOneItemDict(dataset) == dataset.type = "dict" /\ Len(dataset.items) = 1

\* The result of a call that raises e and leaves the object and the file alone.
h5Raises(e) == h5err' = e /\ UNCHANGED <<h5self, h5file>>

\* __init__(name, mode): without a name no file is opened. With a name the
\* file is opened by file(): mode 'w' makes it empty, mode 'a' keeps what an
\* existing file holds (here nothing, or the dataset "a").
MyHDF5_init ==
    /\ h5self = [made |-> FALSE]
    /\ \E named \in BOOLEAN, mode \in {"a", "w"}, existing \in BOOLEAN :
          LET f == IF existing /\ mode = "a"
                   THEN create_dataset(h5file, "a", ndarray(0, <<1, 1>>))
                   ELSE h5file
              o == [made |-> TRUE, fh |-> "None", dataset |-> <<>>, group |-> <<>>]
          IN  IF named
              THEN /\ h5file' = f
                   /\ h5self' = info([o EXCEPT !.fh = "open"], f)
              ELSE /\ ~existing /\ mode = "a"
                   /\ h5self' = o
                   /\ UNCHANGED h5file
    /\ h5last' = [op |-> "init"]
    /\ h5err' = ""
    /\ UNCHANGED h5calls
    /\ UNCHANGED <<writerVars, readerVars>>

\* file(name, mode) on an object made without a name: opens the file and
\* calls info().
MyHDF5_file ==
    /\ h5self # [made |-> FALSE]
    /\ h5self.fh = "None"
    /\ h5self' = info([h5self EXCEPT !.fh = "open"], h5file)
    /\ h5last' = [op |-> "file"]
    /\ h5err' = ""
    /\ UNCHANGED <<h5file, h5calls>>
    /\ UNCHANGED <<writerVars, readerVars>>

\* get(dataName) raises AssertionError for a name that is not in self.dataset
\* and KeyError for a name that is not in the file.
getError(dataName) ==
    IF ~(\E i \in 1..Len(h5self.dataset) : h5self.dataset[i] = dataName)
    THEN "AssertionError"
    ELSE IF dataName \notin DOMAIN h5file.datasets THEN "KeyError" ELSE ""

\* get(dataName): np.array(self.fh[dataName]).
get(dataName) == h5file.datasets[dataName]

\* append(dataset): the two asserts, create_dataset (ValueError if the name
\* exists, AttributeError without a file), then info().
append ==
    /\ h5self # [made |-> FALSE]
    /\ h5calls < MaxOps
    /\ \E dataset \in DatasetArgs(h5calls + 1) :
          IF ~isOneItemDict(dataset) THEN h5Raises("AssertionError")
          ELSE IF h5self.fh = "None" THEN h5Raises("AttributeError")
          ELSE IF contains(h5file, dataset.items[1].key) THEN h5Raises("ValueError")
          ELSE /\ h5file' = create_dataset(h5file, dataset.items[1].key,
                                           dataset.items[1].value)
               /\ h5self' = info(h5self, h5file')
               /\ h5err' = ""
    /\ h5calls' = h5calls + 1
    /\ h5last' = [op |-> "append", before |-> h5file]
    /\ UNCHANGED <<writerVars, readerVars>>

\* concatenate(dataset): the two asserts, get, 'del self.fh[datasetName]', and
\* create_dataset with np.concatenate((originalDataset, newDataset)), which is
\* evaluated after the del; info() is not called.
concatenate ==
    /\ h5self # [made |-> FALSE]
    /\ h5calls < MaxOps
    /\ \E dataset \in DatasetArgs(h5calls + 1) :
          IF ~isOneItemDict(dataset) THEN h5Raises("AssertionError")
          ELSE LET datasetName == dataset.items[1].key
                   newDataset  == dataset.items[1].value
               IN  IF getError(datasetName) # "" THEN h5Raises(getError(datasetName))
                   ELSE LET originalDataset == get(datasetName)
                        IN  IF ~concatenable(originalDataset, newDataset)
                            THEN /\ h5file' = delete(h5file, datasetName)
                                 /\ h5err' = "ValueError"
                                 /\ UNCHANGED h5self
                            ELSE /\ h5file' = create_dataset(
                                                 delete(h5file, datasetName),
                                                 datasetName,
                                                 np_concatenate(originalDataset, newDataset))
                                 /\ h5err' = ""
                                 /\ UNCHANGED h5self
    /\ h5calls' = h5calls + 1
    /\ h5last' = [op |-> "concatenate", before |-> h5file]
    /\ UNCHANGED <<writerVars, readerVars>>

NextMyHDF5 == MyHDF5_init \/ MyHDF5_file \/ append \/ concatenate

SpecMyHDF5 == Init /\ [][NextMyHDF5]_vars

\* The object has a file open.
H5Open == h5self # [made |-> FALSE] /\ h5self.fh = "open"

\* C29: after any sequence of append and concatenate calls on an open MyHDF5
\* object, failing calls included, self.dataset holds exactly the names of
\* the datasets stored in the file, and a concatenate that failed has left
\* the file as it was, the original dataset with its original content.
C29_DatasetsInFile ==
    H5Open =>
        /\ {h5self.dataset[i] : i \in 1..Len(h5self.dataset)} = DOMAIN h5file.datasets
        /\ (h5last.op = "concatenate" /\ h5err # "") => h5file = h5last.before

====
